---- MODULE Spec2Model ----
(***************************************************************************)
(* Model of scriptpythonMIPS.py: MIPSPipelineSimulator, a one-pass         *)
(* scheduler that inserts bubbles before an instruction until all of its   *)
(* source registers are ready, and the script that runs it.                *)
(*                                                                         *)
(* A Python str is modelled as a sequence of one-character strings, so     *)
(* that strip, split, upper and the regular expressions of parse_instr are *)
(* computed character by character.  None is modelled as the empty         *)
(* sequence: the code only tests it by truthiness (`if dest:`) and no      *)
(* token of a line is ever the empty string.                               *)
(***************************************************************************)
EXTENDS Integers, Sequences, FiniteSets, TLC

\* ---------------------------------------------------------------- bounds
\* Longest generated block, in lines.
MaxLen == 3
\* Number of analyses run on one simulator instance by the script.
MaxRuns == 3

\* ------------------------------------------------------- string helpers
None == <<>>

\* The characters str.strip() removes and \s matches, among those used here.
Whitespace == {" ", "\t", "\n", "\r", "\f"}

\* The separator class [,\s] of re.split in parse_instr.
Separators == Whitespace \cup {","}

LowerCase ==
    <<"a", "b", "c", "d", "e", "f", "g", "h", "i", "j", "k", "l", "m",
      "n", "o", "p", "q", "r", "s", "t", "u", "v", "w", "x", "y", "z">>

UpperCase ==
    <<"A", "B", "C", "D", "E", "F", "G", "H", "I", "J", "K", "L", "M",
      "N", "O", "P", "Q", "R", "S", "T", "U", "V", "W", "X", "Y", "Z">>

RECURSIVE LStrip(_)
LStrip(s) ==
    IF s # <<>> /\ Head(s) \in Whitespace THEN LStrip(Tail(s)) ELSE s

RECURSIVE RStrip(_)
RStrip(s) ==
    IF s # <<>> /\ s[Len(s)] \in Whitespace
    THEN RStrip(SubSeq(s, 1, Len(s) - 1))
    ELSE s

\* str.strip()
Strip(s) == RStrip(LStrip(s))

\* c in s
Contains(s, c) == \E i \in 1..Len(s) : s[i] = c

\* Index of the first character of s that is in the set cs (Len(s)+1 if none).
FirstIn(s, cs) ==
    IF \E i \in 1..Len(s) : s[i] \in cs
    THEN CHOOSE i \in 1..Len(s) : s[i] \in cs /\ \A j \in 1..(i - 1) : s[j] \notin cs
    ELSE Len(s) + 1

\* Index of the first character of s that is not in cs (Len(s)+1 if none).
FirstNotIn(s, cs) ==
    IF \E i \in 1..Len(s) : s[i] \notin cs
    THEN CHOOSE i \in 1..Len(s) : s[i] \notin cs /\ \A j \in 1..(i - 1) : s[j] \in cs
    ELSE Len(s) + 1

\* s.split(c): the pieces of s between occurrences of c, empty pieces kept.
RECURSIVE Split(_, _)
Split(s, c) ==
    IF Contains(s, c)
    THEN LET i == FirstIn(s, {c})
         IN  <<SubSeq(s, 1, i - 1)>> \o Split(SubSeq(s, i + 1, Len(s)), c)
    ELSE <<s>>

\* re.split(r'[,\s]+', s): split at every maximal run of separators.
RECURSIVE ReSplit(_)
ReSplit(s) ==
    IF \E i \in 1..Len(s) : s[i] \in Separators
    THEN LET i == FirstIn(s, Separators)
             rest == SubSeq(s, i, Len(s))
             j == FirstNotIn(rest, Separators)
         IN  <<SubSeq(s, 1, i - 1)>> \o ReSplit(SubSeq(rest, j, Len(rest)))
    ELSE <<s>>

\* [p for p in parts if p]
RECURSIVE DropEmpty(_)
DropEmpty(parts) ==
    IF parts = <<>> THEN <<>>
    ELSE IF Head(parts) = <<>> THEN DropEmpty(Tail(parts))
    ELSE <<Head(parts)>> \o DropEmpty(Tail(parts))

UpperChar(c) ==
    IF \E i \in 1..26 : LowerCase[i] = c
    THEN UpperCase[CHOOSE i \in 1..26 : LowerCase[i] = c]
    ELSE c

\* str.upper()
RECURSIVE ToUpper(_)
ToUpper(s) ==
    IF s = <<>> THEN <<>> ELSE <<UpperChar(Head(s))>> \o ToUpper(Tail(s))

\* s.replace(c, '')
RECURSIVE Remove(_, _)
Remove(s, c) ==
    IF s = <<>> THEN <<>>
    ELSE IF Head(s) = c THEN Remove(Tail(s), c)
    ELSE <<Head(s)>> \o Remove(Tail(s), c)

\* s.startswith(c) for a one-character prefix
StartsWith(s, c) == s # <<>> /\ Head(s) = c

\* s.endswith(c) for a one-character suffix
EndsWith(s, c) == s # <<>> /\ s[Len(s)] = c

\* re.match(r'^[A-Za-z_]+$', p); p is a token, so it holds no newline.
IsAlphaToken(p) ==
    /\ p # <<>>
    /\ \A i \in 1..Len(p) :
          \/ \E k \in 1..26 : p[i] = LowerCase[k] \/ p[i] = UpperCase[k]
          \/ p[i] = "_"

\* ------------------------------------------------------------ parse_instr
LABEL == <<"L", "A", "B", "E", "L">>

\* Category 1: stores and branches, which only read registers.
StoreBranchOps ==
    {<<"S", ".", "D">>, <<"S", "W">>, <<"S", "B">>, <<"B", "E", "Q">>, <<"B", "N", "E">>, <<"J", "R">>}

\* Faulty variant: a memory operand is kept whole, the base register is not
\* extracted.
MemBaseWhole(p) == p

\* p.split('(')[1].replace(')', '')
MemBase(p) == Remove(Split(p, "(")[2], ")")

\* The sources of a store or branch, from its operands.
RECURSIVE StoreSrcs(_)
StoreSrcs(ps) ==
    IF ps = <<>> THEN <<>>
    ELSE LET p == Head(ps)
             this ==
                 IF Contains(p, "(") THEN <<MemBase(p)>>
                 ELSE IF ~IsAlphaToken(p) THEN <<p>>
                 ELSE IF \/ Contains(p, "$")
                         \/ StartsWith(ToUpper(p), "R")
                         \/ StartsWith(ToUpper(p), "F")
                      THEN <<p>>
                 ELSE <<>>
         IN  this \o StoreSrcs(Tail(ps))

\* The sources of an arithmetic instruction or load, from parts[2:].
RECURSIVE DefaultSrcs(_)
DefaultSrcs(ps) ==
    IF ps = <<>> THEN <<>>
    ELSE LET p == Head(ps)
         IN  (IF Contains(p, "(") THEN <<MemBase(p)>> ELSE <<p>>)
                 \o DefaultSrcs(Tail(ps))

parse_instr(instr) ==
    LET text == Strip(Split(instr, "#")[1])
        parts == DropEmpty(ReSplit(text))
    IN  IF parts = <<>> THEN [op |-> None, dest |-> None, srcs |-> <<>>]
        ELSE LET op == ToUpper(parts[1])
             IN  IF EndsWith(op, ":")
                 THEN [op |-> LABEL, dest |-> None, srcs |-> <<>>]
                 ELSE IF op \in StoreBranchOps
                 THEN [op |-> op, dest |-> None, srcs |-> StoreSrcs(Tail(parts))]
                 ELSE IF Len(parts) > 1
                 THEN [op |-> op, dest |-> parts[2],
                       srcs |-> DefaultSrcs(SubSeq(parts, 3, Len(parts)))]
                 ELSE [op |-> op, dest |-> None, srcs |-> <<>>]

\* ------------------------------------------------------------ get_latency
\* Faulty variant: the load class is missing from the lookup.
get_latencyNoLoad(op) ==
    IF op \in {<<"D", "I", "V", ".", "D">>, <<"D", "I", "V">>} THEN 10
    ELSE IF op \in {<<"M", "U", "L", ".", "D">>, <<"M", "U", "L">>} THEN 4
    ELSE 1

\* Faulty variant: only the floating-point divide is in the divide class.
get_latencyNoDiv(op) ==
    IF op \in {<<"D", "I", "V", ".", "D">>} THEN 10
    ELSE IF op \in {<<"M", "U", "L", ".", "D">>, <<"M", "U", "L">>} THEN 4
    ELSE IF op \in {<<"L", ".", "D">>, <<"L", "W">>} THEN 2
    ELSE 1

get_latency(op) ==
    IF op \in {<<"D", "I", "V", ".", "D">>, <<"D", "I", "V">>} THEN 10
    ELSE IF op \in {<<"M", "U", "L", ".", "D">>, <<"M", "U", "L">>} THEN 4
    ELSE IF op \in {<<"L", ".", "D">>, <<"L", "W">>} THEN 2
    ELSE 1

\* ------------------------------------------------------------------ inputs
\* A triple-quoted block: a newline, then every line followed by a newline.
RECURSIVE Block(_)
Block(ls) ==
    IF ls = <<>> THEN <<"\n">>
    ELSE Block(SubSeq(ls, 1, Len(ls) - 1)) \o ls[Len(ls)] \o <<"\n">>

code_A ==
    Block(<< <<"A", "D", "D", " ", "$", "t", "0", ",", " ", "$", "t", "1", ",", " ", "$", "t", "2">>,
             <<"S", "U", "B", " ", "$", "t", "3", ",", " ", "$", "t", "0", ",", " ", "$", "t", "4">>,
             <<"A", "N", "D", " ", "$", "t", "5", ",", " ", "$", "t", "3", ",", " ", "$", "t", "6">>,
             <<"O", "R", " ", "$", "t", "7", ",", " ", "$", "t", "5", ",", " ", "$", "t", "8">> >>)

code_B ==
    Block(<< <<"A", "D", "D", " ", "R", "1", ",", " ", "R", "2", ",", " ", "R", "3">>,
             <<"S", "U", "B", " ", "R", "4", ",", " ", "R", "1", ",", " ", "R", "5">>,
             <<"A", "N", "D", " ", "R", "6", ",", " ", "R", "1", ",", " ", "R", "7">>,
             <<"O", "R", " ", "R", "8", ",", " ", "R", "1", ",", " ", "R", "9">>,
             <<"X", "O", "R", " ", "R", "1", "0", ",", " ", "R", "1", ",", " ", "R", "1", "1">> >>)

code_C ==
    Block(<< <<"L", ".", "D", " ", "F", "0", ",", " ", "0", "(", "R", "1", ")">>,
             <<"A", "D", "D", ".", "D", " ", "F", "4", ",", " ", "F", "0", ",", " ", "F", "2">>,
             <<"S", ".", "D", " ", "F", "4", ",", " ", "0", "(", "R", "1", ")">>,
             <<"D", "A", "D", "D", "U", "I", " ", "R", "1", ",", " ", "R", "1", ",", " ", "#", "-", "8">>,
             <<"B", "N", "E", " ", "R", "1", ",", " ", "R", "2", ",", " ", "L", "o", "o", "p">> >>)

code_C_opt ==
    Block(<< <<"L", ".", "D", " ", "F", "0", ",", " ", "0", "(", "R", "1", ")">>,
             <<"D", "A", "D", "D", "U", "I", " ", "R", "1", ",", " ", "R", "1", ",", " ", "#", "-", "8">>,
             <<"A", "D", "D", ".", "D", " ", "F", "4", ",", " ", "F", "0", ",", " ", "F", "2">>,
             <<"B", "N", "E", " ", "R", "1", ",", " ", "R", "2", ",", " ", "L", "o", "o", "p">>,
             <<"S", ".", "D", " ", "F", "4", ",", " ", "8", "(", "R", "1", ")">> >>)

code_D ==
    Block(<< <<"D", "I", "V", ".", "D", " ", "F", "0", ",", " ", "F", "2", ",", " ", "F", "4">>,
             <<"A", "D", "D", ".", "D", " ", "F", "1", "0", ",", " ", "F", "0", ",", " ", "F", "8">>,
             <<"S", "U", "B", ".", "D", " ", "F", "1", "2", ",", " ", "F", "8", ",", " ", "F", "1", "4">> >>)

code_E ==
    Block(<< <<"D", "I", "V", ".", "D", " ", "F", "0", ",", " ", "F", "2", ",", " ", "F", "4">>,
             <<"A", "D", "D", ".", "D", " ", "F", "6", ",", " ", "F", "0", ",", " ", "F", "8">>,
             <<"S", ".", "D", " ", "F", "6", ",", " ", "0", "(", "R", "1", ")">>,
             <<"S", "U", "B", ".", "D", " ", "F", "8", ",", " ", "F", "1", "0", ",", " ", "F", "1", "4">>,
             <<"M", "U", "L", ".", "D", " ", "F", "6", ",", " ", "F", "1", "0", ",", " ", "F", "8">> >>)

code_F ==
    Block(<< <<"A", "D", "D", " ", "R", "4", ",", " ", "R", "5", ",", " ", "R", "6">>,
             <<"B", "E", "Q", " ", "R", "1", ",", " ", "R", "2", ",", " ", "E", "X", "I", "T">>,
             <<"O", "R", " ", "R", "7", ",", " ", "R", "8", ",", " ", "R", "9">> >>)

\* Two-instruction blocks: a producer and a consumer of its destination.
Scenario1 == Block(<< <<"A", "D", "D", " ", "R", "1", ",", "R", "2", ",", "R", "3">>, <<"S", "U", "B", " ", "R", "4", ",", "R", "1", ",", "R", "5">> >>)

Scenario2 == Block(<< <<"L", ".", "D", " ", "F", "0", ",", "0", "(", "R", "1", ")">>, <<"A", "D", "D", ".", "D", " ", "F", "4", ",", "F", "0", ",", "F", "2">> >>)

Scenario3 == Block(<< <<"D", "I", "V", ".", "D", " ", "F", "0", ",", "F", "2", ",", "F", "4">>, <<"A", "D", "D", ".", "D", " ", "F", "1", "0", ",", "F", "0", ",", "F", "8">> >>)

\* One instruction of every latency class, with no dependency between them.
LatencyBlock ==
    Block(<< <<"D", "I", "V", " ", "R", "1", ",", " ", "R", "2", ",", " ", "R", "3">>,
             <<"M", "U", "L", " ", "R", "4", ",", " ", "R", "5", ",", " ", "R", "6">>,
             <<"L", "W", " ", "R", "7", ",", " ", "0", "(", "R", "8", ")">>,
             <<"m", "u", "l", ".", "d", " ", "F", "0", ",", " ", "F", "2", ",", " ", "F", "4">>,
             <<"N", "O", "P">>,
             <<"F", "O", "O", " ", "R", "9", ",", " ", "R", "1", "0">> >>)

\* Consumers of two pending producers: the longer wait is on the first
\* source (PendingFirst), on the second (PendingSecond), or both are equal
\* (PendingTie).
PendingFirst ==
    Block(<< <<"D", "I", "V", ".", "D", " ", "F", "0", ",", " ", "F", "2", ",", " ", "F", "4">>,
             <<"L", ".", "D", " ", "F", "6", ",", " ", "0", "(", "R", "1", ")">>,
             <<"A", "D", "D", ".", "D", " ", "F", "8", ",", " ", "F", "0", ",", " ", "F", "6">> >>)

PendingSecond ==
    Block(<< <<"D", "I", "V", ".", "D", " ", "F", "0", ",", " ", "F", "2", ",", " ", "F", "4">>,
             <<"L", ".", "D", " ", "F", "6", ",", " ", "0", "(", "R", "1", ")">>,
             <<"A", "D", "D", ".", "D", " ", "F", "8", ",", " ", "F", "6", ",", " ", "F", "0">> >>)

PendingTie ==
    Block(<< <<"M", "U", "L", ".", "D", " ", "F", "0", ",", " ", "F", "2", ",", " ", "F", "4">>,
             <<"S", "U", "B", " ", "R", "4", ",", " ", "R", "1", ",", " ", "R", "5">>,
             <<"L", ".", "D", " ", "F", "6", ",", " ", "0", "(", "R", "1", ")">>,
             <<"A", "D", "D", ".", "D", " ", "F", "8", ",", " ", "F", "0", ",", " ", "F", "6">> >>)

\* Stores and a branch that wait for a load: on the base register of the
\* store's memory operand, on the register stored, on a branch operand.
StoreBlock ==
    Block(<< <<"L", "W", " ", "R", "1", ",", " ", "0", "(", "R", "2", ")">>,
             <<"S", "W", " ", "R", "3", ",", " ", "4", "(", "R", "1", ")">>,
             <<"L", ".", "D", " ", "F", "4", ",", " ", "0", "(", "R", "1", ")">>,
             <<"S", ".", "D", " ", "F", "4", ",", " ", "8", "(", "R", "1", ")">>,
             <<"L", "W", " ", "R", "5", ",", " ", "0", "(", "R", "1", ")">>,
             <<"B", "N", "E", " ", "R", "5", ",", " ", "R", "2", ",", " ", "L", "o", "o", "p">> >>)

\* Instructions that read the register they write, with a latency of 2.
SelfLoad ==
    Block(<< <<"L", "W", " ", "R", "1", ",", " ", "0", "(", "R", "1", ")">>,
             <<"L", "W", " ", "R", "1", ",", " ", "0", "(", "R", "1", ")">>,
             <<"D", "A", "D", "D", "U", "I", " ", "R", "1", ",", " ", "R", "1", ",", " ", "#", "-", "8">> >>)

\* A label line that carries an instruction after the label.
LabelBlock ==
    Block(<< <<"L", ".", "D", " ", "F", "0", ",", " ", "0", "(", "R", "1", ")">>,
             <<"L", "o", "o", "p", ":", " ", "A", "D", "D", ".", "D", " ", "F", "4", ",", " ", "F", "0", ",", " ", "F", "2">>,
             <<"S", ".", "D", " ", "F", "4", ",", " ", "0", "(", "R", "1", ")">> >>)

\* The blocks the script analyses on its one simulator instance.
Scripts ==
    {code_A, code_B, code_C, code_C_opt, code_D, code_E, code_F,
     Scenario1, Scenario2, Scenario3, LatencyBlock,
     PendingFirst, PendingSecond, PendingTie, StoreBlock, SelfLoad,
     LabelBlock}

\* The lines generated blocks are made of: a blank line, a label, a line
\* holding only a comment, and the instructions of code_C and code_D.
Pool ==
    { <<>>,
      <<"L", "o", "o", "p", ":">>,
      <<"#", " ", "n", "o", "t", "a">>,
      <<"L", ".", "D", " ", "F", "0", ",", " ", "0", "(", "R", "1", ")">>,
      <<"A", "D", "D", ".", "D", " ", "F", "4", ",", " ", "F", "0", ",", " ", "F", "2">>,
      <<"S", ".", "D", " ", "F", "4", ",", " ", "0", "(", "R", "1", ")">>,
      <<"D", "A", "D", "D", "U", "I", " ", "R", "1", ",", " ", "R", "1", ",", " ", "#", "-", "8">>,
      <<"B", "N", "E", " ", "R", "1", ",", " ", "R", "2", ",", " ", "L", "o", "o", "p">>,
      <<"D", "I", "V", ".", "D", " ", "F", "0", ",", " ", "F", "2", ",", " ", "F", "4">> }

\* Every block of at most MaxLen lines of Pool, and the empty string.
Generated ==
    {<<>>} \cup
    {Block(ls) : ls \in UNION {[1..n -> Pool] : n \in 0..MaxLen}}

\* mode "single": one analysis of any generated block on a fresh instance;
\* mode "script": up to MaxRuns analyses of the script's blocks, in any
\* order and with repetition, on the same instance.
Inputs(m) == IF m = "single" THEN Generated ELSE Scripts

Budget(m) == IF m = "single" THEN 1 ELSE MaxRuns

\* ------------------------------------------------------------------- state
VARIABLES
    mode,             \* which caller drives the simulator
    runs,             \* analyses started on this instance
    seen,             \* <<code_str, result>> of every analysis completed
    pc,               \* position: "idle", "loop", "bubble", "exec", "done"
    code_str,         \* argument of analyze
    reg_ready_cycle,  \* self.reg_ready_cycle: register -> cycle it is ready
    lines,            \* code_str.strip().split('\n')
    decoded,          \* parse_instr of every stripped line of lines
    idx,              \* position of the for loop in lines
    current_cycle,
    total_stalls,
    line,             \* the stripped line being processed
    op, dest, srcs,   \* result of parse_instr(line)
    max_stall,
    wait_reg,
    nop,              \* iterations of the bubble loop done for this line
    stdout,           \* the rows printed under the table header, in order
    summary,          \* the three numbers printed under RESULTADO FINAL
    exec_cycles       \* the value analyze returns

vars ==
    <<mode, runs, seen, pc, code_str, reg_ready_cycle, lines, decoded, idx,
      current_cycle, total_stalls, line, op, dest, srcs, max_stall,
      wait_reg, nop, stdout, summary, exec_cycles>>

EmptyDict == [r \in {} |-> 0]

NOP == <<"N", "O", "P">>

Row(cycle, instr, kind, arg) ==
    [cycle |-> cycle, instr |-> instr, kind |-> kind, arg |-> arg]

NoSummary == [instrucoes |-> 0, bolhas |-> 0, ciclos |-> 0]

\* parse_instr is a pure function of the line: the value the loop gets from
\* its call on line i of the block is tabulated when the block is split,
\* and read by the loop when it reaches that line.
Decode(ls) == [i \in 1..Len(ls) |-> parse_instr(Strip(ls[i]))]

\* sim = MIPSPipelineSimulator()
Init ==
    /\ mode \in {"single", "script"}
    /\ runs = 0
    /\ seen = {}
    /\ pc = "idle"
    /\ code_str = <<>>
    /\ reg_ready_cycle = EmptyDict
    /\ lines = <<>>
    /\ decoded = Decode(<<>>)
    /\ idx = 1
    /\ current_cycle = 1
    /\ total_stalls = 0
    /\ line = <<>>
    /\ op = None
    /\ dest = None
    /\ srcs = <<>>
    /\ max_stall = 0
    /\ wait_reg = <<>>
    /\ nop = 0
    /\ stdout = <<>>
    /\ summary = NoSummary
    /\ exec_cycles = 0

\* ---------------------------------------------------------------- analyze
\* Faulty variant: the readiness table is not reset at the start of a run.
ResetTableKeep(table) == table

\* Entry of analyze, up to the table header: the state is reset.
ResetTable(table) == EmptyDict

Analyze ==
    /\ pc \in {"idle", "done"}
    /\ runs < Budget(mode)
    /\ \E code \in Inputs(mode) :
          /\ code_str' = code
          /\ lines' = Split(Strip(code), "\n")
          /\ decoded' = Decode(Split(Strip(code), "\n"))
    /\ runs' = runs + 1
    /\ reg_ready_cycle' = ResetTable(reg_ready_cycle)
    /\ current_cycle' = 1
    /\ total_stalls' = 0
    /\ idx' = 1
    /\ line' = <<>>
    /\ op' = None
    /\ dest' = None
    /\ srcs' = <<>>
    /\ max_stall' = 0
    /\ wait_reg' = <<>>
    /\ nop' = 0
    /\ stdout' = <<>>
    /\ summary' = NoSummary
    /\ exec_cycles' = 0
    /\ pc' = "loop"
    /\ UNCHANGED <<mode, seen>>

\* `if not line: continue`
SkipBlank ==
    /\ pc = "loop"
    /\ idx <= Len(lines)
    /\ Strip(lines[idx]) = <<>>
    /\ line' = Strip(lines[idx])
    /\ idx' = idx + 1
    /\ UNCHANGED <<mode, runs, seen, pc, code_str, reg_ready_cycle, lines,
                   decoded, current_cycle, total_stalls, op, dest, srcs,
                   max_stall, wait_reg, nop, stdout, summary, exec_cycles>>

\* Faulty variant: a label takes a cycle of its own.
LabelAdvance ==
    /\ pc = "loop"
    /\ idx <= Len(lines)
    /\ Strip(lines[idx]) # <<>>
    /\ LET l == Strip(lines[idx])
           p == decoded[idx]
       IN  /\ p.op = LABEL
           /\ line' = l
           /\ op' = p.op
           /\ dest' = p.dest
           /\ srcs' = p.srcs
           /\ stdout' = Append(stdout, Row(current_cycle, l, "Label", <<>>))
    /\ idx' = idx + 1
    /\ current_cycle' = current_cycle + 1
    /\ UNCHANGED <<mode, runs, seen, pc, code_str, reg_ready_cycle, lines,
                   decoded, total_stalls, max_stall, wait_reg, nop, summary,
                   exec_cycles>>

\* `if op == 'LABEL'`: the row is printed and the line is done.
Label ==
    /\ pc = "loop"
    /\ idx <= Len(lines)
    /\ Strip(lines[idx]) # <<>>
    /\ LET l == Strip(lines[idx])
           p == decoded[idx]
       IN  /\ p.op = LABEL
           /\ line' = l
           /\ op' = p.op
           /\ dest' = p.dest
           /\ srcs' = p.srcs
           /\ stdout' = Append(stdout, Row(current_cycle, l, "Label", <<>>))
    /\ idx' = idx + 1
    /\ UNCHANGED <<mode, runs, seen, pc, code_str, reg_ready_cycle, lines,
                   decoded, current_cycle, total_stalls, max_stall, wait_reg,
                   nop, summary, exec_cycles>>

\* Faulty variant: a register is taken to be ready one cycle early.
RECURSIVE HazardScanEarly(_, _, _, _, _)
HazardScanEarly(ss, table, cycle, stall, reg) ==
    IF ss = <<>> THEN [max_stall |-> stall, wait_reg |-> reg]
    ELSE LET src == Head(ss)
         IN  IF /\ src \in DOMAIN table
                /\ table[src] > cycle + 1
                /\ table[src] - cycle - 1 > stall
             THEN HazardScanEarly(Tail(ss), table, cycle,
                                  table[src] - cycle - 1, src)
             ELSE HazardScanEarly(Tail(ss), table, cycle, stall, reg)

\* Faulty variant: every pending source replaces the wait found so far, so the
\* last pending source decides instead of the one with the longest wait.
RECURSIVE HazardScanLatest(_, _, _, _, _)
HazardScanLatest(ss, table, cycle, stall, reg) ==
    IF ss = <<>> THEN [max_stall |-> stall, wait_reg |-> reg]
    ELSE LET src == Head(ss)
         IN  IF /\ src \in DOMAIN table
                /\ table[src] > cycle
             THEN HazardScanLatest(Tail(ss), table, cycle,
                                   table[src] - cycle, src)
             ELSE HazardScanLatest(Tail(ss), table, cycle, stall, reg)

\* Faulty variant: a wait equal to the longest found so far also replaces
\* it, so the last of several equal sources is reported.
RECURSIVE HazardScanTieLast(_, _, _, _, _)
HazardScanTieLast(ss, table, cycle, stall, reg) ==
    IF ss = <<>> THEN [max_stall |-> stall, wait_reg |-> reg]
    ELSE LET src == Head(ss)
         IN  IF /\ src \in DOMAIN table
                /\ table[src] > cycle
                /\ table[src] - cycle >= stall
             THEN HazardScanTieLast(Tail(ss), table, cycle,
                                    table[src] - cycle, src)
             ELSE HazardScanTieLast(Tail(ss), table, cycle, stall, reg)

\* Step 1 of the loop body: the scan of the sources for the longest wait.
RECURSIVE HazardScan(_, _, _, _, _)
HazardScan(ss, table, cycle, stall, reg) ==
    IF ss = <<>> THEN [max_stall |-> stall, wait_reg |-> reg]
    ELSE LET src == Head(ss)
         IN  IF /\ src \in DOMAIN table
                /\ table[src] > cycle
                /\ table[src] - cycle > stall
             THEN HazardScan(Tail(ss), table, cycle, table[src] - cycle, src)
             ELSE HazardScan(Tail(ss), table, cycle, stall, reg)

\* Faulty variant: the destination's ready cycle is taken into account
\* before the sources are scanned, so an instruction waits for its own
\* result.
HazardWriteFirst ==
    /\ pc = "loop"
    /\ idx <= Len(lines)
    /\ Strip(lines[idx]) # <<>>
    /\ LET l == Strip(lines[idx])
           p == decoded[idx]
           written ==
               IF p.dest # None
               THEN [r \in DOMAIN reg_ready_cycle \cup {p.dest} |->
                        IF r = p.dest
                        THEN current_cycle + get_latency(p.op)
                        ELSE reg_ready_cycle[r]]
               ELSE reg_ready_cycle
           h == HazardScan(p.srcs, written, current_cycle, 0, <<>>)
       IN  /\ p.op # LABEL
           /\ line' = l
           /\ op' = p.op
           /\ dest' = p.dest
           /\ srcs' = p.srcs
           /\ max_stall' = h.max_stall
           /\ wait_reg' = h.wait_reg
           /\ pc' = IF h.max_stall > 0 THEN "bubble" ELSE "exec"
    /\ nop' = 0
    /\ UNCHANGED <<mode, runs, seen, code_str, reg_ready_cycle, lines,
                   decoded, idx, current_cycle, total_stalls, stdout, summary,
                   exec_cycles>>

Hazard ==
    /\ pc = "loop"
    /\ idx <= Len(lines)
    /\ Strip(lines[idx]) # <<>>
    /\ LET l == Strip(lines[idx])
           p == decoded[idx]
           h == HazardScan(p.srcs, reg_ready_cycle, current_cycle, 0, <<>>)
       IN  /\ p.op # LABEL
           /\ line' = l
           /\ op' = p.op
           /\ dest' = p.dest
           /\ srcs' = p.srcs
           /\ max_stall' = h.max_stall
           /\ wait_reg' = h.wait_reg
           /\ pc' = IF h.max_stall > 0 THEN "bubble" ELSE "exec"
    /\ nop' = 0
    /\ UNCHANGED <<mode, runs, seen, code_str, reg_ready_cycle, lines,
                   decoded, idx, current_cycle, total_stalls, stdout, summary,
                   exec_cycles>>

\* Faulty variant: a bubble is printed and counted but the pipeline cycle
\* does not advance.
BubbleNoAdvance ==
    /\ pc = "bubble"
    /\ nop < max_stall
    /\ stdout' = Append(stdout, Row(current_cycle, NOP, "Bolha", wait_reg))
    /\ total_stalls' = total_stalls + 1
    /\ nop' = nop + 1
    /\ pc' = IF nop + 1 < max_stall THEN "bubble" ELSE "exec"
    /\ UNCHANGED <<mode, runs, seen, code_str, reg_ready_cycle, lines,
                   decoded, idx, current_cycle, line, op, dest, srcs,
                   max_stall, wait_reg, summary, exec_cycles>>

\* Faulty variant: the bubble loop runs once more than max_stall.
BubbleOneMore ==
    /\ pc = "bubble"
    /\ nop < max_stall + 1
    /\ stdout' = Append(stdout, Row(current_cycle, NOP, "Bolha", wait_reg))
    /\ current_cycle' = current_cycle + 1
    /\ total_stalls' = total_stalls + 1
    /\ nop' = nop + 1
    /\ pc' = IF nop + 1 < max_stall + 1 THEN "bubble" ELSE "exec"
    /\ UNCHANGED <<mode, runs, seen, code_str, reg_ready_cycle, lines,
                   decoded, idx, line, op, dest, srcs, max_stall, wait_reg,
                   summary, exec_cycles>>

\* Step 2: one iteration of `for _ in range(max_stall)`.
Bubble ==
    /\ pc = "bubble"
    /\ nop < max_stall
    /\ stdout' = Append(stdout, Row(current_cycle, NOP, "Bolha", wait_reg))
    /\ current_cycle' = current_cycle + 1
    /\ total_stalls' = total_stalls + 1
    /\ nop' = nop + 1
    /\ pc' = IF nop + 1 < max_stall THEN "bubble" ELSE "exec"
    /\ UNCHANGED <<mode, runs, seen, code_str, reg_ready_cycle, lines,
                   decoded, idx, line, op, dest, srcs, max_stall, wait_reg,
                   summary, exec_cycles>>

\* Faulty variant: `current_cycle += 1` is indented into `if dest:`, so an
\* instruction without a destination does not advance the pipeline.
ExecuteAdvanceInIf ==
    /\ pc = "exec"
    /\ stdout' = Append(stdout, Row(current_cycle, line, "Executa", op))
    /\ reg_ready_cycle' =
          IF dest # None
          THEN [r \in DOMAIN reg_ready_cycle \cup {dest} |->
                   IF r = dest THEN current_cycle + get_latency(op)
                   ELSE reg_ready_cycle[r]]
          ELSE reg_ready_cycle
    /\ current_cycle' = IF dest # None THEN current_cycle + 1 ELSE current_cycle
    /\ idx' = idx + 1
    /\ pc' = "loop"
    /\ UNCHANGED <<mode, runs, seen, code_str, lines, decoded, total_stalls,
                   line, op, dest, srcs, max_stall, wait_reg, nop, summary,
                   exec_cycles>>

\* Faulty variant: the new ready cycle is merged with the entry already in
\* the table, the later of the two is kept.
ExecuteKeepLater ==
    /\ pc = "exec"
    /\ stdout' = Append(stdout, Row(current_cycle, line, "Executa", op))
    /\ reg_ready_cycle' =
          IF dest # None
          THEN [r \in DOMAIN reg_ready_cycle \cup {dest} |->
                   IF r = dest
                   THEN IF /\ dest \in DOMAIN reg_ready_cycle
                           /\ reg_ready_cycle[dest] >
                                 current_cycle + get_latency(op)
                        THEN reg_ready_cycle[dest]
                        ELSE current_cycle + get_latency(op)
                   ELSE reg_ready_cycle[r]]
          ELSE reg_ready_cycle
    /\ current_cycle' = current_cycle + 1
    /\ idx' = idx + 1
    /\ pc' = "loop"
    /\ UNCHANGED <<mode, runs, seen, code_str, lines, decoded, total_stalls,
                   line, op, dest, srcs, max_stall, wait_reg, nop, summary,
                   exec_cycles>>

\* Faulty variant: issuing an instruction also drops the entries whose
\* register is already available.
ExecutePrune ==
    /\ pc = "exec"
    /\ stdout' = Append(stdout, Row(current_cycle, line, "Executa", op))
    /\ reg_ready_cycle' =
          LET kept == {r \in DOMAIN reg_ready_cycle :
                          reg_ready_cycle[r] > current_cycle}
          IN  IF dest # None
              THEN [r \in kept \cup {dest} |->
                       IF r = dest
                       THEN current_cycle + get_latency(op)
                       ELSE reg_ready_cycle[r]]
              ELSE [r \in kept |-> reg_ready_cycle[r]]
    /\ current_cycle' = current_cycle + 1
    /\ idx' = idx + 1
    /\ pc' = "loop"
    /\ UNCHANGED <<mode, runs, seen, code_str, lines, decoded, total_stalls,
                   line, op, dest, srcs, max_stall, wait_reg, nop, summary,
                   exec_cycles>>

\* Faulty variant: the destination becomes ready one cycle later than its
\* latency says.
ExecuteLateReady ==
    /\ pc = "exec"
    /\ stdout' = Append(stdout, Row(current_cycle, line, "Executa", op))
    /\ reg_ready_cycle' =
          IF dest # None
          THEN [r \in DOMAIN reg_ready_cycle \cup {dest} |->
                   IF r = dest THEN current_cycle + get_latency(op) + 1
                   ELSE reg_ready_cycle[r]]
          ELSE reg_ready_cycle
    /\ current_cycle' = current_cycle + 1
    /\ idx' = idx + 1
    /\ pc' = "loop"
    /\ UNCHANGED <<mode, runs, seen, code_str, lines, decoded, total_stalls,
                   line, op, dest, srcs, max_stall, wait_reg, nop, summary,
                   exec_cycles>>

\* Steps 3 and 4: the instruction is issued, its destination becomes ready
\* get_latency(op) cycles later, and the pipeline advances.
Execute ==
    /\ pc = "exec"
    /\ stdout' = Append(stdout, Row(current_cycle, line, "Executa", op))
    /\ reg_ready_cycle' =
          IF dest # None
          THEN [r \in DOMAIN reg_ready_cycle \cup {dest} |->
                   IF r = dest THEN current_cycle + get_latency(op)
                   ELSE reg_ready_cycle[r]]
          ELSE reg_ready_cycle
    /\ current_cycle' = current_cycle + 1
    /\ idx' = idx + 1
    /\ pc' = "loop"
    /\ UNCHANGED <<mode, runs, seen, code_str, lines, decoded, total_stalls,
                   line, op, dest, srcs, max_stall, wait_reg, nop, summary,
                   exec_cycles>>

\* Faulty variant: the final `- 1` is forgotten.
FinishOffByOne ==
    /\ pc = "loop"
    /\ idx > Len(lines)
    /\ exec_cycles' = current_cycle
    /\ summary' = [instrucoes |-> Len(lines), bolhas |-> total_stalls,
                   ciclos |-> current_cycle]
    /\ seen' = seen \cup
          {<<code_str, [rows |-> stdout,
                        instrucoes |-> Len(lines),
                        bolhas |-> total_stalls,
                        ciclos |-> current_cycle]>>}
    /\ pc' = "done"
    /\ UNCHANGED <<mode, runs, code_str, reg_ready_cycle, lines, decoded, idx,
                   current_cycle, total_stalls, line, op, dest, srcs,
                   max_stall, wait_reg, nop, stdout>>

\* After the loop: the summary is printed and exec_cycles returned.
Finish ==
    /\ pc = "loop"
    /\ idx > Len(lines)
    /\ exec_cycles' = current_cycle - 1
    /\ summary' = [instrucoes |-> Len(lines), bolhas |-> total_stalls,
                   ciclos |-> current_cycle - 1]
    /\ seen' = seen \cup
          {<<code_str, [rows |-> stdout,
                        instrucoes |-> Len(lines),
                        bolhas |-> total_stalls,
                        ciclos |-> current_cycle - 1]>>}
    /\ pc' = "done"
    /\ UNCHANGED <<mode, runs, code_str, reg_ready_cycle, lines, decoded, idx,
                   current_cycle, total_stalls, line, op, dest, srcs,
                   max_stall, wait_reg, nop, stdout>>

Next ==
    \/ Analyze
    \/ SkipBlank
    \/ Label
    \/ Hazard
    \/ Bubble
    \/ Execute
    \/ Finish

Spec == Init /\ [][Next]_vars

\* A step of an analysis that is under way.
RunStep == SkipBlank \/ Label \/ Hazard \/ Bubble \/ Execute \/ Finish

\* analyze is straight-line sequential code: once called, the interpreter
\* keeps running it.  Nothing obliges the caller to start another analysis.
FairSpec == Spec /\ WF_vars(RunStep)

\* -------------------------------------------------------------- properties
\* Positions of the rows of an executed instruction in stdout.
ExecIdx == {i \in 1..Len(stdout) : stdout[i].kind = "Executa"}

\* Positions of the schedule entries: label rows and executed instructions.
EntryIdx == {i \in 1..Len(stdout) : stdout[i].kind # "Bolha"}

\* The last position of S before j, 0 if there is none.
PrevIn(S, j) ==
    IF \E i \in S : i < j
    THEN CHOOSE i \in S : i < j /\ \A k \in S : k < j => k <= i
    ELSE 0

\* The cycle of the row at position i; 0 stands for "before the first row".
CycleAt(i) == IF i = 0 THEN 0 ELSE stdout[i].cycle

\* Number of bubble rows strictly between positions i and j.
BubblesBetween(i, j) ==
    Cardinality({k \in (i + 1)..(j - 1) : stdout[k].kind = "Bolha"})

\* Every source in ss that is in the table is ready at cycle c.
AllReady(ss, table, c) ==
    \A i \in 1..Len(ss) : ss[i] \in DOMAIN table => table[ss[i]] <= c

\* max over the sources r in the table of max(0, table[r] - c).
RequiredWait(ss, table, c) ==
    LET W == {0} \cup {table[ss[i]] - c :
                          i \in {k \in 1..Len(ss) : ss[k] \in DOMAIN table}}
    IN  CHOOSE m \in W : \A w \in W : w <= m

\* While an instruction waits to issue (pc = "exec" or "bubble"): the cycle
\* the scheduler was at when it scanned the sources, which is one more than
\* the issue cycle of the previous instruction.
ScanCycle == 1 + CycleAt(PrevIn(ExecIdx, Len(stdout) + 1))

\* The bubbles inserted so far before the instruction that waits to issue.
BubblesInserted == BubblesBetween(PrevIn(ExecIdx, Len(stdout) + 1), Len(stdout) + 1)

\* C1: when an operation issues (the state in which its Executa row is
\* about to be printed at current_cycle), every one of its sources that is
\* in the readiness table has a ready cycle <= the issue cycle.
C1_NoIssueBeforeReady ==
    pc = "exec" => AllReady(srcs, reg_ready_cycle, current_cycle)

\* An operation issues after bubbles were inserted for a pending source.
C1_Witness ==
    /\ pc = "exec"
    /\ nop > 0
    /\ \E i \in 1..Len(srcs) :
          /\ srcs[i] \in DOMAIN reg_ready_cycle
          /\ reg_ready_cycle[srcs[i]] = current_cycle

\* C2: the number of bubbles inserted before an operation is the maximum,
\* over its sources in the table, of max(0, ready_cycle - current_cycle);
\* current_cycle advances by exactly that much, and the issue cycle is the
\* earliest cycle from the scan cycle on at which all sources are ready.
C2_MinimalStall ==
    pc = "exec" =>
        LET w == RequiredWait(srcs, reg_ready_cycle, ScanCycle)
        IN  /\ BubblesInserted = w
            /\ current_cycle = ScanCycle + w
            /\ AllReady(srcs, reg_ready_cycle, current_cycle)
            /\ \A c \in ScanCycle..(current_cycle - 1) :
                  ~AllReady(srcs, reg_ready_cycle, c)

\* An operation with two pending sources, the first of which has the
\* longer wait, issues after the bubbles for the first.
C2_Witness ==
    /\ pc = "exec"
    /\ Len(srcs) = 2
    /\ srcs[1] \in DOMAIN reg_ready_cycle
    /\ srcs[2] \in DOMAIN reg_ready_cycle
    /\ reg_ready_cycle[srcs[1]] > reg_ready_cycle[srcs[2]]
    /\ reg_ready_cycle[srcs[2]] > ScanCycle
    /\ BubblesInserted = reg_ready_cycle[srcs[1]] - ScanCycle

\* C3 as stated: over the schedule entries (label rows and executed
\* instructions) in order, the cycle is strictly increasing and each entry's
\* cycle is 1 + the previous entry's cycle + the bubbles inserted in between.
C3_AsStated ==
    \A j \in EntryIdx :
        LET i == PrevIn(EntryIdx, j)
        IN  i # 0 =>
               /\ stdout[j].cycle > stdout[i].cycle
               /\ stdout[j].cycle = 1 + stdout[i].cycle + BubblesBetween(i, j)

\* C3 amended: the issue cycles of the executed instructions are strictly
\* increasing, each 1 + the previous issue cycle (0 before the first) + the
\* bubbles inserted in between; a label row carries the cycle the scheduler
\* was at, 1 + the issue cycle of the last executed instruction before it.
C3_IssueCycles ==
    /\ \A j \in ExecIdx :
          LET i == PrevIn(ExecIdx, j)
          IN  /\ stdout[j].cycle > CycleAt(i)
              /\ stdout[j].cycle = 1 + CycleAt(i) + BubblesBetween(i, j)
    /\ \A j \in EntryIdx \ ExecIdx :
          stdout[j].cycle = 1 + CycleAt(PrevIn(ExecIdx, j))

\* An instruction issued after an earlier one, with a label row and then a
\* bubble printed in between.
C3_Witness ==
    \E j \in ExecIdx :
        LET i == PrevIn(ExecIdx, j)
        IN  /\ i # 0
            /\ BubblesBetween(i, j) > 0
            /\ \E k \in (i + 1)..(j - 1) : stdout[k].kind = "Label"

\* The operations of a two-line block, when both lines are operations and
\* the second reads the destination of the first.
ProducerConsumer ==
    /\ Len(lines) = 2
    /\ LET p == parse_instr(Strip(lines[1]))
           q == parse_instr(Strip(lines[2]))
       IN  /\ p.op \notin {None, LABEL}
           /\ q.op \notin {None, LABEL}
           /\ p.dest # None
           /\ \E i \in 1..Len(q.srcs) : q.srcs[i] = p.dest

\* C4: a consumer right after its producer waits latency(producer) - 1
\* cycles: ADD then SUB gives 0 stalls and 2 cycles, L.D then ADD.D gives
\* 1 bubble and 3 cycles, DIV.D then ADD.D gives 9 bubbles and 11 cycles.
C4_ProducerConsumerStalls ==
    pc = "done" =>
        /\ code_str = Scenario1 =>
              summary.bolhas = 0 /\ exec_cycles = 2
        /\ code_str = Scenario2 =>
              /\ summary.bolhas = 1
              /\ BubblesBetween(0, Len(stdout) + 1) = 1
              /\ exec_cycles = 3
        /\ code_str = Scenario3 =>
              /\ summary.bolhas = 9
              /\ BubblesBetween(0, Len(stdout) + 1) = 9
              /\ exec_cycles = 11
        /\ ProducerConsumer =>
              LET lat == get_latency(parse_instr(Strip(lines[1])).op)
              IN  /\ summary.bolhas = lat - 1
                  /\ exec_cycles = 2 + (lat - 1)

\* The load-use block has been analysed, with its one bubble.
C4_Witness ==
    /\ pc = "done"
    /\ code_str = Scenario2
    /\ ProducerConsumer
    /\ total_stalls = 1

\* The lines of the block that decode to an operation: not blank, not only
\* a comment, not a label.
OpLines ==
    {i \in 1..Len(lines) :
        /\ Strip(lines[i]) # <<>>
        /\ parse_instr(Strip(lines[i])).op \notin {None, LABEL}}

\* The registers the operations of the block write, and those they read.
WrittenRegs == {parse_instr(Strip(lines[i])).dest : i \in OpLines} \ {None}

ReadRegs ==
    UNION {{parse_instr(Strip(lines[i])).srcs[k] :
               k \in 1..Len(parse_instr(Strip(lines[i])).srcs)} :
           i \in OpLines}

\* C5: when no instruction of the block reads a register that an
\* instruction of the block writes, the analysis reports 0 stall cycles and
\* as many elapsed cycles as the block has instructions.
C5_IndependentBlock ==
    (pc = "done" /\ WrittenRegs \cap ReadRegs = {}) =>
        /\ summary.bolhas = 0
        /\ summary.ciclos = Cardinality(OpLines)
        /\ exec_cycles = Cardinality(OpLines)

\* C6: the result of an analysis depends on its block only: every block
\* analysed on this instance, first on the fresh instance or later after
\* other blocks, has one result (rows, instruction count, stalls, cycles),
\* and every run starts its loop with an empty readiness table.
C6_RunsIndependent ==
    /\ \A a \in seen : \A b \in seen : a[1] = b[1] => a[2] = b[2]
    /\ (pc = "loop" /\ idx = 1) => reg_ready_cycle = EmptyDict

\* Three analyses are done on one instance, one block twice and another
\* block once, and the last one left a non-empty readiness table behind.
C6_Witness ==
    /\ pc = "done"
    /\ runs = 3
    /\ Cardinality(seen) = 2
    /\ reg_ready_cycle # EmptyDict
    /\ total_stalls > 0

\* C7 as stated: the elapsed cycles returned are the cycle of the last
\* schedule entry of the block (label row or executed instruction), and the
\* stall count is the sum of the stalls inserted before the operations.
C7_AsStated ==
    (pc = "done" /\ EntryIdx # {}) =>
        /\ exec_cycles = CycleAt(PrevIn(EntryIdx, Len(stdout) + 1))
        /\ summary.bolhas = BubblesBetween(0, Len(stdout) + 1)

\* C7 amended: the elapsed cycles returned are current_cycle - 1, which is
\* the issue cycle of the last executed instruction (0 if none was
\* executed); the stall count is the number of bubble rows, every bubble
\* row precedes an executed instruction, and the bubbles before each
\* instruction are its required_wait, so the count reported is their sum.
C7_ElapsedAndStalls ==
    /\ total_stalls = BubblesBetween(0, Len(stdout) + 1)
    /\ pc = "exec" =>
          BubblesInserted = RequiredWait(srcs, reg_ready_cycle, ScanCycle)
    /\ pc = "done" =>
          /\ exec_cycles = current_cycle - 1
          /\ exec_cycles = CycleAt(PrevIn(ExecIdx, Len(stdout) + 1))
          /\ summary.ciclos = exec_cycles
          /\ summary.bolhas = total_stalls
          /\ summary.bolhas =
                BubblesBetween(0, PrevIn(ExecIdx, Len(stdout) + 1))

\* A block that ends with a label after a stalled instruction is done.
C7_Witness ==
    /\ pc = "done"
    /\ total_stalls > 0
    /\ stdout # <<>>
    /\ stdout[Len(stdout)].kind = "Label"
    /\ stdout[Len(stdout)].cycle = exec_cycles + 1

\* C8: the analysis of an empty input (no lines, or only blank lines)
\* completes and reports zero instructions, zero cycles and zero stalls.
C8_EmptyInput ==
    (pc = "done" /\ Strip(code_str) = <<>>) =>
        /\ summary.instrucoes = 0
        /\ summary.ciclos = 0
        /\ summary.bolhas = 0
        /\ exec_cycles = 0

DivideClass == {<<"D", "I", "V", ".", "D">>, <<"D", "I", "V">>}

MultiplyClass == {<<"M", "U", "L", ".", "D">>, <<"M", "U", "L">>}

LoadClass == {<<"L", ".", "D">>, <<"L", "W">>}

\* An instruction with a destination was the last thing printed.
JustWrote ==
    /\ pc \in {"loop", "done"}
    /\ stdout # <<>>
    /\ stdout[Len(stdout)].kind = "Executa"
    /\ dest # None

\* C9: the latency given to a destination, the distance from the issue
\* cycle to the ready cycle written, is 10 for DIV.D and DIV, 4 for MUL.D
\* and MUL, 2 for L.D and LW, 1 for every other mnemonic, whatever the
\* state of the run.
C9_LatencyLookup ==
    JustWrote =>
        LET lat == reg_ready_cycle[dest] - stdout[Len(stdout)].cycle
        IN  /\ lat \in {1, 2, 4, 10}
            /\ op \in DivideClass => lat = 10
            /\ op \in MultiplyClass => lat = 4
            /\ op \in LoadClass => lat = 2
            /\ op \notin DivideClass \cup MultiplyClass \cup LoadClass => lat = 1

\* The block with DIV, MUL, LW, mul.d and the unknown FOO has been run to
\* its last instruction, FOO.
C9_Witness ==
    /\ JustWrote
    /\ code_str = LatencyBlock
    /\ op = <<"F", "O", "O">>
    /\ reg_ready_cycle[<<"R", "1">>] = 11
    /\ reg_ready_cycle[<<"R", "4">>] = 6
    /\ reg_ready_cycle[<<"R", "7">>] = 5
    /\ reg_ready_cycle[<<"F", "0">>] = 8

\* The lines of the block that are not blank.
NonBlank == {i \in 1..Len(lines) : Strip(lines[i]) # <<>>}

\* C10: every analysis that has started reaches its end; the loop moves
\* over the lines one by one and never back, each non-blank line gives
\* exactly one label or instruction row, and the bubble loop of an
\* operation has run exactly required_wait times when the operation issues,
\* each bubble adding one row, one cycle and one stall.
C10_SinglePass ==
    /\ [](pc \in {"loop", "bubble", "exec"} => <>(pc = "done"))
    /\ [][\/ idx' = idx
          \/ idx' = idx + 1
          \/ (pc \in {"idle", "done"} /\ idx' = 1)]_vars
    /\ [](pc = "exec" =>
             /\ nop = max_stall
             /\ nop = RequiredWait(srcs, reg_ready_cycle, ScanCycle)
             /\ nop = BubblesInserted)
    /\ [](pc = "done" =>
             /\ idx = Len(lines) + 1
             /\ Cardinality(EntryIdx) = Cardinality(NonBlank)
             /\ BubblesBetween(0, Len(stdout) + 1) = total_stalls
             /\ current_cycle = 1 + Cardinality(ExecIdx) + total_stalls)

\* A three-line block with a stall has been analysed to its end.
C10_Witness ==
    /\ pc = "done"
    /\ Len(lines) = 3
    /\ Cardinality(NonBlank) = 3
    /\ total_stalls > 0
    /\ idx = 4

\* A step that prints a label row.
LabelStep ==
    /\ Len(stdout') = Len(stdout) + 1
    /\ stdout'[Len(stdout')].kind = "Label"

\* The block is an operation, a label line, and an operation that reads
\* nothing the first one writes.
LabelBetweenIndependent ==
    /\ Len(lines) = 3
    /\ decoded[1].op \notin {None, LABEL}
    /\ Strip(lines[2]) # <<>>
    /\ decoded[2].op = LABEL
    /\ decoded[3].op \notin {None, LABEL}
    /\ \A k \in 1..Len(decoded[3].srcs) : decoded[3].srcs[k] # decoded[1].dest

\* C11: a label line is emitted at the current cycle and leaves
\* current_cycle, total_stalls and the readiness table as they are, without
\* a bubble; it yields no source and no destination, whatever its text; a
\* label between two independent operations adds nothing to the stall
\* count (0) or to the elapsed cycles (2, one per operation).
C11_LabelFrame ==
    /\ [][LabelStep =>
             /\ stdout'[Len(stdout')].cycle = current_cycle
             /\ current_cycle' = current_cycle
             /\ total_stalls' = total_stalls
             /\ reg_ready_cycle' = reg_ready_cycle
             /\ srcs' = <<>>
             /\ dest' = None
             /\ pc' = "loop"]_vars
    /\ []((pc = "done" /\ LabelBetweenIndependent) =>
             /\ summary.bolhas = 0
             /\ exec_cycles = 2)

\* A label line whose text names F0 has just been emitted while F0 is
\* still pending, and nothing was scanned.
C11_Witness ==
    /\ pc = "loop"
    /\ stdout # <<>>
    /\ stdout[Len(stdout)].kind = "Label"
    /\ stdout[Len(stdout)].instr = <<"L", "o", "o", "p", ":", " ", "A", "D", "D", ".", "D", " ", "F", "4", ",", " ", "F", "0", ",", " ", "F", "2">>
    /\ <<"F", "0">> \in DOMAIN reg_ready_cycle
    /\ reg_ready_cycle[<<"F", "0">>] > current_cycle
    /\ srcs = <<>>
    /\ total_stalls = 0

\* The loop is at a line that is empty once its trailing comment and the
\* surrounding whitespace are removed.
AtEmptyLine ==
    /\ pc = "loop"
    /\ idx <= Len(lines)
    /\ Strip(Split(lines[idx], "#")[1]) = <<>>

\* C12: a line that is empty after stripping its comment and whitespace
\* decodes to the empty result and is skipped: the loop moves to the next
\* line without printing a row, consuming a cycle, adding a stall or
\* touching the readiness table.
C12_EmptyLineSkipped ==
    /\ [](AtEmptyLine =>
             /\ decoded[idx].op = None
             /\ decoded[idx].dest = None
             /\ decoded[idx].srcs = <<>>)
    /\ [][AtEmptyLine =>
             /\ idx' = idx + 1
             /\ pc' = "loop"
             /\ stdout' = stdout
             /\ current_cycle' = current_cycle
             /\ total_stalls' = total_stalls
             /\ reg_ready_cycle' = reg_ready_cycle]_vars

\* Positions of the executed instructions whose destination is r.
WritersOf(r) == {i \in ExecIdx : parse_instr(stdout[i].instr).dest = r}

\* The ready cycle the executed instruction at position i gives its
\* destination: its issue cycle plus the latency of its mnemonic.
ReadyGiven(i) == stdout[i].cycle + get_latency(stdout[i].arg)

\* C13: the entry of a register is the issue cycle + latency(mnemonic) of
\* the last instruction executed so far that has it as destination, whatever
\* earlier writers left there, a later cycle included; a register is in the
\* table exactly when an executed instruction has written it.
C13_LastWriterWins ==
    /\ \A r \in DOMAIN reg_ready_cycle :
          /\ WritersOf(r) # {}
          /\ reg_ready_cycle[r] =
                ReadyGiven(PrevIn(WritersOf(r), Len(stdout) + 1))
    /\ \A i \in ExecIdx :
          parse_instr(stdout[i].instr).dest # None =>
              parse_instr(stdout[i].instr).dest \in DOMAIN reg_ready_cycle

\* An instruction has just overwritten an entry that an earlier writer had
\* set to a later cycle.
C13_Witness ==
    /\ JustWrote
    /\ \E i \in WritersOf(dest) :
          /\ i < Len(stdout)
          /\ ReadyGiven(i) > reg_ready_cycle[dest]
          /\ ReadyGiven(i) > stdout[Len(stdout)].cycle

\* A step inside one analysis run: every step but the call of analyze, which
\* starts a run with a fresh table.
InRunStep == pc \notin {"idle", "done"}

\* The step prints the row of an executed instruction that has a destination.
IssuesWriter ==
    /\ Len(stdout') = Len(stdout) + 1
    /\ stdout'[Len(stdout')].kind = "Executa"
    /\ parse_instr(stdout'[Len(stdout')].instr).dest # None

\* C14: within one run the key set of the readiness table only grows; a step
\* that issues an instruction with a destination assigns that destination's
\* key and no other; every other step (bubble, label, skipped line,
\* instruction without destination, end of run) leaves the table as it was;
\* every stored value is an integer >= 1.
C14_TableFrame ==
    /\ [][InRunStep =>
            /\ DOMAIN reg_ready_cycle \subseteq DOMAIN reg_ready_cycle'
            /\ IF IssuesWriter
               THEN LET d == parse_instr(stdout'[Len(stdout')].instr).dest
                    IN  /\ d \in DOMAIN reg_ready_cycle'
                        /\ DOMAIN reg_ready_cycle' =
                              DOMAIN reg_ready_cycle \cup {d}
                        /\ \A r \in DOMAIN reg_ready_cycle \ {d} :
                              reg_ready_cycle'[r] = reg_ready_cycle[r]
               ELSE reg_ready_cycle' = reg_ready_cycle]_vars
    /\ [](\A r \in DOMAIN reg_ready_cycle :
             /\ reg_ready_cycle[r] \in Nat
             /\ reg_ready_cycle[r] >= 1)

\* A finished run that printed a bubble and an instruction without
\* destination, with two registers in the table.
C14_Witness ==
    /\ pc = "done"
    /\ Cardinality(DOMAIN reg_ready_cycle) >= 2
    /\ \E i \in 1..Len(stdout) : stdout[i].kind = "Bolha"
    /\ \E i \in ExecIdx : parse_instr(stdout[i].instr).dest = None

\* The operand tokens of an instruction line, after the mnemonic.
Operands(l) == Tail(DropEmpty(ReSplit(Strip(Split(l, "#")[1]))))

\* The text between the first "(" and the first ")" of a memory operand.
BaseRegister(p) ==
    LET i == CHOOSE k \in 1..Len(p) :
                 p[k] = "(" /\ \A m \in 1..(k - 1) : p[m] # "("
        j == CHOOSE k \in 1..Len(p) :
                 p[k] = ")" /\ \A m \in 1..(k - 1) : p[m] # ")"
    IN  SubSeq(p, i + 1, j - 1)

\* The token begins with a register prefix (R, F) or carries "$".
HasRegisterPrefix(p) ==
    \/ Contains(p, "$")
    \/ p # <<>> /\ p[1] \in {"R", "r", "F", "f"}

\* x is an element of the sequence s.
InSeq(x, s) == \E i \in 1..Len(s) : s[i] = x

\* A store, branch or jump waits to issue, its sources scanned.
StoreBranchIssuing ==
    /\ pc = "exec"
    /\ op \in StoreBranchOps

\* C15: a store, branch or jump has no destination and issuing it leaves the
\* readiness table unchanged; its register operands, the base register of an
\* offset(base_register) operand included, are its sources, and it is held
\* by bubbles until all of them are ready, exactly as long as required; an
\* operand made of letters only that does not begin with a register prefix
\* is not a source.
C15_StoreBranch ==
    /\ [](StoreBranchIssuing =>
            /\ dest = None
            /\ \A k \in 1..Len(Operands(line)) :
                  LET p == Operands(line)[k]
                  IN  /\ Contains(p, "(") => InSeq(BaseRegister(p), srcs)
                      /\ (~Contains(p, "(") /\ HasRegisterPrefix(p))
                            => InSeq(p, srcs)
                      /\ (IsAlphaToken(p) /\ ~HasRegisterPrefix(p))
                            => ~InSeq(p, srcs)
            /\ AllReady(srcs, reg_ready_cycle, current_cycle)
            /\ BubblesInserted =
                  RequiredWait(srcs, reg_ready_cycle, ScanCycle))
    /\ [][StoreBranchIssuing =>
            /\ reg_ready_cycle' = reg_ready_cycle
            /\ stdout' = Append(stdout,
                                Row(current_cycle, line, "Executa", op))]_vars

\* A store waits to issue after bubbles inserted for the base register of
\* its memory operand, which a load is still producing.
C15_Witness ==
    /\ StoreBranchIssuing
    /\ BubblesInserted > 0
    /\ \E k \in 1..Len(Operands(line)) :
          /\ Contains(Operands(line)[k], "(")
          /\ wait_reg = BaseRegister(Operands(line)[k])
          /\ wait_reg \in DOMAIN reg_ready_cycle
          /\ reg_ready_cycle[wait_reg] = current_cycle

\* Positions in ss of the sources whose wait at cycle c is the longest one.
LongestWaiting(ss, table, c) ==
    {k \in 1..Len(ss) :
        /\ ss[k] \in DOMAIN table
        /\ table[ss[k]] - c = RequiredWait(ss, table, c)}

\* The first source, in declared order, with the longest wait.
FirstLongest(ss, table, c) ==
    ss[CHOOSE k \in LongestWaiting(ss, table, c) :
           \A m \in LongestWaiting(ss, table, c) : k <= m]

\* Positions of the bubble rows printed so far for the instruction that
\* waits to issue.
OwnBubbles ==
    {k \in (PrevIn(ExecIdx, Len(stdout) + 1) + 1)..Len(stdout) :
        stdout[k].kind = "Bolha"}

\* C16: every bubble printed before an instruction names the source with
\* the longest wait at the scan; of several sources with the same longest
\* wait it names the first in declared source order; all bubbles of one
\* instruction name the same register.
C16_ReportedRegister ==
    (/\ pc \in {"bubble", "exec"}
     /\ RequiredWait(srcs, reg_ready_cycle, ScanCycle) > 0)
        => /\ wait_reg = FirstLongest(srcs, reg_ready_cycle, ScanCycle)
           /\ \A k \in OwnBubbles : stdout[k].arg = wait_reg

\* Two different sources had the same longest wait and the bubble printed
\* names the first of them.
C16_Witness ==
    /\ pc = "exec"
    /\ OwnBubbles # {}
    /\ \E k, m \in LongestWaiting(srcs, reg_ready_cycle, ScanCycle) :
          /\ k < m
          /\ srcs[k] # srcs[m]
          /\ \A b \in OwnBubbles : stdout[b].arg = srcs[k]

\* Positions of the rows that take a cycle: bubbles and executed
\* instructions.
CycleIdx == {i \in 1..Len(stdout) : stdout[i].kind \in {"Bolha", "Executa"}}

\* Positions of the bubble rows.
BubbleIdx == {i \in 1..Len(stdout) : stdout[i].kind = "Bolha"}

\* C17: the cycles of the bubble rows and executed-instruction rows, in the
\* order printed, are 1, 2, ..., N without gap or repeat; at the end of the
\* run N is the total of elapsed cycles reported, which is therefore the
\* number of executed instructions plus the stall cycles.
C17_CyclesContiguous ==
    /\ \A i \in CycleIdx :
          stdout[i].cycle = Cardinality({j \in CycleIdx : j <= i})
    /\ pc # "idle" => current_cycle = Cardinality(CycleIdx) + 1
    /\ total_stalls = Cardinality(BubbleIdx)
    /\ pc = "done" =>
          /\ exec_cycles = Cardinality(CycleIdx)
          /\ summary.ciclos = exec_cycles
          /\ exec_cycles = Cardinality(ExecIdx) + total_stalls
          /\ summary.ciclos = Cardinality(ExecIdx) + summary.bolhas

\* A finished run with a label row, bubbles and several executed
\* instructions.
C17_Witness ==
    /\ pc = "done"
    /\ total_stalls >= 2
    /\ Cardinality(ExecIdx) >= 2
    /\ \E i \in 1..Len(stdout) : stdout[i].kind = "Label"

\* The latency of the last executed instruction that wrote r.
LastWriterLatency(r) ==
    get_latency(stdout[PrevIn(WritersOf(r), Len(stdout) + 1)].arg)

\* Every instruction of the block that has a destination has latency 1.
UnitLatencyBlock ==
    \A i \in 1..Len(lines) :
        decoded[i].dest # None => get_latency(decoded[i].op) = 1

\* C18: when the processing of a line starts, no register is further from
\* ready than the latency of its last writer minus 1; so no instruction is
\* held for more than 9 bubbles, and a block whose instructions with a
\* destination all have latency 1 has no stall at all.
C18_WaitBounded ==
    /\ pc = "loop" =>
          \A r \in DOMAIN reg_ready_cycle :
              reg_ready_cycle[r] - current_cycle <= LastWriterLatency(r) - 1
    /\ pc \in {"bubble", "exec"} =>
          /\ max_stall <= 9
          /\ Cardinality(OwnBubbles) <= 9
    /\ (pc # "idle" /\ UnitLatencyBlock) => total_stalls = 0

\* The bound is attained: an instruction waits to issue after 9 bubbles.
C18_Witness ==
    /\ pc = "exec"
    /\ max_stall = 9
    /\ Cardinality(OwnBubbles) = 9

\* An instruction that reads the register it writes waits to issue.
SelfReader ==
    /\ pc = "exec"
    /\ dest # None
    /\ InSeq(dest, srcs)

\* The table as the instructions executed before the waiting one left it:
\* each written register with the ready cycle its last writer gave it.
ProducedBefore ==
    [r \in {parse_instr(stdout[i].instr).dest : i \in ExecIdx} \ {None} |->
        ReadyGiven(PrevIn(WritersOf(r), Len(stdout) + 1))]

\* C19: an instruction that reads and writes the same register is held
\* exactly as long as the instructions executed before it require, on that
\* register only as long as its previous producer requires and not at all
\* when there is none; its own ready cycle enters the table when it issues.
C19_ReadBeforeWrite ==
    /\ [](SelfReader =>
            /\ BubblesInserted = RequiredWait(srcs, ProducedBefore, ScanCycle)
            /\ WritersOf(dest) = {} => dest \notin DOMAIN reg_ready_cycle
            /\ (OwnBubbles # {} /\ wait_reg = dest) =>
                  /\ WritersOf(dest) # {}
                  /\ Cardinality(OwnBubbles) =
                        ProducedBefore[dest] - ScanCycle)
    /\ [][SelfReader =>
            reg_ready_cycle'[dest] = current_cycle + get_latency(op)]_vars

\* An instruction that reads and writes a register was held for the
\* previous producer of that register.
C19_Witness ==
    /\ SelfReader
    /\ OwnBubbles # {}
    /\ wait_reg = dest
    /\ reg_ready_cycle[dest] = current_cycle

====
